---- MODULE Spec2Model ----
(***************************************************************************)
(* Indexable-source pipeline of bibxml-service.                            *)
(*                                                                         *)
(*   sources/indexable.py  register_git_source / handle_index: repository  *)
(*                         synchronization, change detection against the   *)
(*                         cache, invocation of the registered indexer.    *)
(*   main/sources.py       register_relaton_source, index_dataset,         *)
(*                         reset_index_for_dataset.                        *)
(*                                                                         *)
(* A caller (a worker of the task runtime, a test, a management command)   *)
(* performs one operation at a time; the steps of an operation are the     *)
(* points where the store, the cache or the work directory are touched.    *)
(***************************************************************************)
EXTENDS Integers, Sequences, FiniteSets, TLC

\* ------------------------------------------------------------------ bounds
\* Number of distinct commits a backing repository goes through.
MaxHead == 2

\* Number of calls of the registration wrapper.
MaxRegistrations == 3

\* Largest value of the AUTO_REINDEX_INTERVAL setting.
MaxInterval == 1

\* Latest day a date of a source file is of, and largest number of entries
\* under 'date' in a source file.
MaxDate == 2
MaxDateItems == 2

\* ------------------------------------------------------------- vocabulary
Heads == 1..MaxHead

\* Refs, in the order in which the source files are enumerated.
RefOrder == <<"A", "B">>
Refs == {RefOrder[i] : i \in 1..Len(RefOrder)}

\* Sources registered at process start: a Relaton dataset
\* (main/sources.py:194) and a git source registered by another module with
\* a descriptor that follows IndexableSourceToRegister.
RelatonDs == "ds1"
OtherDs == "ext"
Sources == {RelatonDs, OtherDs}

\* The (url, branch) pairs given at registration, as repository names.
Repos(s) == IF s = RelatonDs THEN <<"r1">> ELSE <<"r2", "r3">>

\* What a source file can be.
\*   valid      passes BibliographicItem(**ref_data)
\*   fixable    fails it, normalize_relaxed succeeds, second validation passes
\*   unfixable  fails it, normalize_relaxed succeeds, second validation fails
\*   nr_ok      fails it, normalize_relaxed raises, second validation passes
\*   nr_bad     fails it, normalize_relaxed raises, second validation fails
\*   broken     cannot be opened or is not YAML: open()/yaml.load raise
Kinds == {"valid", "fixable", "unfixable", "nr_ok", "nr_bad", "broken"}
NoFile == "nofile"
FileStates == Kinds \cup {NoFile}

NoRec == [none |-> TRUE]
Absent == "absent"
NoResult == <<-1, -1>>

\* --------------------------------------------------------- pure functions
\* repo.head.commit.hexsha of commit number h.
HexSha(h) == "c" \o ToString(h)

\* ', '.join(repo_heads)
RECURSIVE Join(_)
Join(heads) ==
    IF Len(heads) = 0 THEN ""
    ELSE IF Len(heads) = 1 THEN heads[1]
    ELSE heads[1] \o ", " \o Join(Tail(heads))

\* f'{source_id}_latest_indexed_heads': one cache key per source id, so the
\* cache is a function of the source id.
CacheKeys == Sources

\* Number of positional parameters of the registered indexer, and number of
\* positional arguments handle_index passes to it.
RelatonIndexerParams == 5
ConformingIndexerParams == 4
IndexerCallArgs == 4

\* The descriptor register_relaton_source builds, and the one a source
\* following IndexableSourceToRegister gives.
IndexerParams(desc) ==
    IF desc = "relaton" THEN RelatonIndexerParams ELSE ConformingIndexerParams

\* BibliographicItem(**ref_data) on the raw document.
RawValid(k) == k = "valid"
\* normalize_relaxed(ref_data) raises.
NormalizeRaises(k) == k \in {"nr_ok", "nr_bad"}
\* BibliographicItem(**ref_data) after the normalization attempt.
SecondValid(k) == k \in {"fixable", "nr_ok"}
\* validation_error.errors() of the first validation.
ValidationErrors(k) ==
    CASE k = "valid" -> <<>>
      [] k = "fixable" -> <<"e1">>
      [] k = "nr_ok" -> <<"e1">>
      [] k = "nr_bad" -> <<"e1", "e2">>
      [] OTHER -> <<"e1", "e2">>

\* Variant: without the 'if bibitem' guard, the raw document of a record
\* that stays invalid is persisted.
ValidateKeepsUnresolved(k) ==
    IF RawValid(k)
    THEN [bibitem |-> TRUE,
          outcome |-> [success |-> TRUE, num_validation_errors |-> 0,
                       validation_errors |-> <<>>],
          normalized |-> FALSE,
          reported |-> <<>>]
    ELSE [bibitem |-> TRUE,
          outcome |-> [success |-> SecondValid(k),
                       num_validation_errors |-> Len(ValidationErrors(k)),
                       validation_errors |-> ValidationErrors(k)],
          normalized |-> TRUE,
          reported |-> (IF NormalizeRaises(k) THEN <<"normalization">> ELSE <<>>)
                       \o (IF SecondValid(k) THEN <<>> ELSE <<"not resolved">>)]

\* Variant: the outcome of a record that validates after normalization is
\* reset to that of a record without validation errors.
ValidateClearsErrors(k) ==
    [bibitem |-> RawValid(k) \/ SecondValid(k),
     outcome |-> IF RawValid(k) \/ SecondValid(k)
                 THEN [success |-> TRUE, num_validation_errors |-> 0,
                       validation_errors |-> <<>>]
                 ELSE [success |-> FALSE,
                       num_validation_errors |-> Len(ValidationErrors(k)),
                       validation_errors |-> ValidationErrors(k)],
     normalized |-> ~RawValid(k),
     reported |-> IF RawValid(k) THEN <<>>
                  ELSE (IF NormalizeRaises(k) THEN <<"normalization">> ELSE <<>>)
                       \o (IF SecondValid(k) THEN <<>> ELSE <<"not resolved">>)]

\* Variant: outcome['num_validation_errors'] is not assigned and keeps the 0
\* it is created with.
ValidateCountStale(k) ==
    [bibitem |-> RawValid(k) \/ SecondValid(k),
     outcome |-> [success |-> RawValid(k) \/ SecondValid(k),
                  num_validation_errors |-> 0,
                  validation_errors |-> ValidationErrors(k)],
     normalized |-> ~RawValid(k),
     reported |-> IF RawValid(k) THEN <<>>
                  ELSE (IF NormalizeRaises(k) THEN <<"normalization">> ELSE <<>>)
                       \o (IF SecondValid(k) THEN <<>> ELSE <<"not resolved">>)]

\* Lines 267-316 of main/sources.py for a file that could be read: the
\* outcome dictionary, whether a bibitem was obtained, and the calls of
\* on_error, in order.
Validate(k) ==
    IF RawValid(k)
    THEN [bibitem |-> TRUE,
          outcome |-> [success |-> TRUE, num_validation_errors |-> 0,
                       validation_errors |-> <<>>],
          normalized |-> FALSE,
          reported |-> <<>>]
    ELSE LET errs == ValidationErrors(k)
             r1 == IF NormalizeRaises(k) THEN <<"normalization">> ELSE <<>>
         IN IF SecondValid(k)
            THEN [bibitem |-> TRUE,
                  outcome |-> [success |-> TRUE,
                               num_validation_errors |-> Len(errs),
                               validation_errors |-> errs],
                  normalized |-> TRUE,
                  reported |-> r1]
            ELSE [bibitem |-> FALSE,
                  outcome |-> [success |-> FALSE,
                               num_validation_errors |-> Len(errs),
                               validation_errors |-> errs],
                  normalized |-> TRUE,
                  reported |-> r1 \o <<"not resolved">>]

\* Days, as numbers; no date (None) is NoDate.
Dates == 1..MaxDate
NoDate == 0

\* index_ts.date(): the runs take place after the days the files give, the
\* run at "t1" a day before the others.
DateOf(index_ts) == IF index_ts = "t1" THEN MaxDate + 1 ELSE MaxDate + 2

\* An entry under 'date' of a source file, by its 'value':
\*   missing  the entry has no 'value'
\*   empty    the value is ''
\*   strict   parse_date_pydantic parses the value
\*   relaxed  parse_date_pydantic does not, parse_relaxed_date does
\*   junk     neither parses the value
DateItems ==
    {[form |-> f, date |-> NoDate] : f \in {"missing", "empty", "junk"}}
    \cup {[form |-> f, date |-> d] : f \in {"strict", "relaxed"}, d \in Dates}
NoDates == [ref \in Refs |-> <<>>]

\* 'if raw_date', for raw_date = item.get('value', None)
HasValue(item) == item.form \notin {"missing", "empty"}

\* dates.parse_date_pydantic(raw_date): the date, or None
parse_date_pydantic(item) ==
    IF item.form = "strict" THEN item.date ELSE NoDate

\* dates.parse_relaxed_date(raw_date): a tuple that begins with the date,
\* or None (here the empty tuple)
parse_relaxed_date(item) ==
    IF item.form \in {"strict", "relaxed"} THEN <<item.date>> ELSE <<>>

\* Variant: without the fallback to parse_relaxed_date.
RECURSIVE to_dates_strict(_)
to_dates_strict(items) ==
    IF items = <<>> THEN <<>>
    ELSE (IF HasValue(Head(items))
             /\ parse_date_pydantic(Head(items)) # NoDate
          THEN <<parse_date_pydantic(Head(items))>>
          ELSE <<>>) \o to_dates_strict(Tail(items))

\* to_dates(items)
RECURSIVE to_dates(_)
to_dates(items) ==
    IF items = <<>> THEN <<>>
    ELSE LET item == Head(items)
             parsed == parse_date_pydantic(item)
             relaxed == parse_relaxed_date(item)
         IN (IF ~HasValue(item) THEN <<>>
             ELSE IF parsed # NoDate THEN <<parsed>>
             ELSE IF relaxed # <<>> THEN <<relaxed[1]>>
             ELSE <<>>) \o to_dates(Tail(items))

\* max(...) of a list that is not empty
RECURSIVE Max(_)
Max(list) ==
    IF Len(list) = 1 THEN list[1]
    ELSE LET rest == Max(Tail(list))
         IN IF list[1] >= rest THEN list[1] ELSE rest

\* latest_date = max(to_dates(as_list(ref_data.get('date', [])))
\*                   or [index_ts.date()])
LatestDate(items, index_ts) ==
    LET found == to_dates(items)
    IN Max(IF found # <<>> THEN found ELSE <<DateOf(index_ts)>>)

\* The row RefData.objects.update_or_create creates from its defaults; rows
\* is the number of rows of the table with the ref and the dataset of the
\* record.
MakeRecord(k, ds_version, index_ts, items) ==
    [rows |-> 1,
     dataset_version |-> ds_version,
     indexed_at |-> index_ts,
     latest_date |-> LatestDate(items, index_ts),
     indexing_outcome |-> Validate(k).outcome,
     body |-> [kind |-> k, normalized |-> Validate(k).normalized]]

\* Record left in the store by the indexer of the other source.
ExtRecord ==
    [rows |-> 1,
     dataset_version |-> "ext",
     indexed_at |-> "ext",
     indexing_outcome |-> [success |-> TRUE, num_validation_errors |-> 0,
                           validation_errors |-> <<>>],
     body |-> [kind |-> "valid", normalized |-> FALSE]]

\* SelectSeq over a sequence of refs with a set membership test.
RECURSIVE FilterRefs(_, _)
FilterRefs(seq, set) ==
    IF Len(seq) = 0 THEN <<>>
    ELSE IF seq[1] \in set
         THEN <<seq[1]>> \o FilterRefs(Tail(seq), set)
         ELSE FilterRefs(Tail(seq), set)

SeqToSet(seq) == {seq[i] : i \in 1..Len(seq)}

\* refs_with_paths: glob of *.yaml in the data directory, as refs.
Enumerate(files) == FilterRefs(RefOrder, {ref \in Refs : files[ref] # NoFile})

\* Refs of a dataset that are stored in old and not in new.
Deleted(old, new) == {ref \in Refs : old[ref] # NoRec /\ new[ref] = NoRec}

\* ------------------------------------------------------------------ state
VARIABLES
    registry,   \* sources.indexable.registry: source id -> descriptor kind
    cache,      \* the cache: key of a source -> fingerprint, or Absent
    store,      \* RefData: dataset -> ref -> record, or NoRec
    workdir,    \* work directory of the Relaton repository: head, data/
                \* and the entries under 'date' of each file
    run,        \* per caller: the operation in progress, its locals and
                \* (history) synced, the repositories ensure_latest was
                \* called on with the commit each was brought to
    aborted,    \* per source (history): the fingerprint and the force flag
                \* of the last ended run of handle_index, if it ended with
                \* an exception or a kill after it had decided to index and
                \* before the indexer returned; else NoAbort
    settings,   \* django.conf.settings: AUTO_REINDEX_INTERVAL
    beat_schedule,  \* celery_app.conf.beat_schedule: source id -> entry
    reglog,     \* (history) the calls of the registration wrapper, in order
    startup     \* the load of main/sources.py: its position, the exception
                \* that ended it, the repositories located so far

\* What the load of the modules reads and writes besides the registry.
registration == <<settings, beat_schedule, reglog, startup>>

vars == <<registry, cache, store, workdir, run, aborted, registration>>

EmptyData == [ref \in Refs |-> NoFile]
EmptyStore == [ds \in Sources |-> [ref \in Refs |-> NoRec]]
NoAbort == [fp |-> Absent, force |-> FALSE]

NoPrev == [fp |-> Absent, pc |-> "none", result |-> NoResult]
NoLast == [kind |-> "none", fp |-> Absent]

\* Callers. One caller runs its operations one after the other.
Callers == {1}

IdleRun ==
    [op |-> "none", pc |-> "idle", src |-> RelatonDs,
     subset |-> FALSE, requested |-> {}, force |-> FALSE,
     repo |-> 1, heads |-> <<>>, synced |-> <<>>,
     version |-> "", ts |-> "", files |-> <<>>, total |-> 0, work |-> <<>>, idx |-> 0,
     indexed |-> {}, txn |-> [ref \in Refs |-> NoRec],
     result |-> NoResult, error |-> "none",
     invoked |-> FALSE, entered |-> FALSE, returned |-> FALSE,
     deleted |-> {}, opened |-> {},
     prevabort |-> NoAbort, prev |-> NoPrev, last |-> NoLast,
     cache0 |-> Absent, before |-> EmptyStore,
     proglog |-> <<>>, errlog |-> <<>>, ref_data |-> NoFile]

Terminal(r) == run[r].pc \in {"idle", "done", "failed"}

\* No entry in the beat schedule.
NoEntry == [none |-> TRUE]

\* AUTO_REINDEX_INTERVAL is not set (None).
NoInterval == 0

\* A setting that is not given: getattr(settings, name, None).
None == "None"

\* An entry of DATASET_SOURCE_OVERRIDES: none for the dataset, relaton_data
\* with repo_url only, relaton_data with repo_url and repo_branch.
OverrideKinds == {"absent", "url", "url_branch"}

\* django.conf.settings, as far as the modules read it.
Settings(interval, datasets, overrides, template, branch) ==
    [AUTO_REINDEX_INTERVAL |-> interval,
     RELATON_DATASETS |-> datasets,
     DATASET_SOURCE_OVERRIDES |-> overrides,
     DEFAULT_DATASET_REPO_URL_TEMPLATE |-> template,
     DEFAULT_DATASET_REPO_BRANCH |-> branch]

\* The settings of a deployment with the one Relaton dataset located by the
\* fallback defaults, without periodic re-indexing.
DefaultSettings ==
    Settings(NoInterval, <<RelatonDs>>, [s \in Sources |-> "absent"],
             "tpl", "main")

\* main/sources.py before it is loaded, and after.
NotLoaded == [pc |-> "datasets", error |-> "none", next |-> 1, repos |-> <<>>]
Loaded ==
    [pc |-> "done", error |-> "none", next |-> 2,
     repos |-> <<<<RelatonDs, "tpl/" \o RelatonDs, "main">>>>]

\* The registrations made while the modules are loaded, without periodic
\* re-indexing.
InitRegistered ==
    /\ registry = [s \in Sources |->
                     IF s = RelatonDs THEN "relaton" ELSE "conforming"]
    /\ settings = DefaultSettings
    /\ startup = Loaded
    /\ beat_schedule = [s \in Sources |-> NoEntry]
    /\ reglog = <<<<RelatonDs, "relaton", "registered">>,
                  <<OtherDs, "conforming", "registered">>>>

InitCommon ==
    /\ InitRegistered
    /\ cache = [s \in CacheKeys |-> Absent]
    /\ workdir = [head |-> 0, files |-> EmptyData, dates |-> NoDates]
    /\ run = [r \in Callers |-> IdleRun]
    /\ aborted = [s \in Sources |-> NoAbort]

Init ==
    /\ InitCommon
    /\ store = EmptyStore

\* ------------------------------------ register_git_source(id, repos)(...)
\* The descriptors a registration is made with.
Descriptors == {"relaton", "conforming"}

\* Values of AUTO_REINDEX_INTERVAL; NoInterval and 0 are both falsy.
Intervals == NoInterval..MaxInterval

\* celery_app.conf.beat_schedule[f'index-{source_id}']
BeatEntry(s, interval) ==
    [task |-> "sources.tasks.fetch_and_index_task",
     schedule |-> interval,
     args |-> <<s>>]

\* Variant: without the 'if source_id in registry' test, the last
\* registration wins.
WrapperOverwrites(s, desc) ==
    /\ Len(reglog) < MaxRegistrations
    /\ registry' = [registry EXCEPT ![s] = desc]
    /\ beat_schedule' =
          IF settings.AUTO_REINDEX_INTERVAL # NoInterval
          THEN [beat_schedule EXCEPT
                  ![s] = BeatEntry(s, settings.AUTO_REINDEX_INTERVAL)]
          ELSE beat_schedule
    /\ reglog' = Append(reglog, <<s, desc,
                                  IF registry[s] # "none" THEN "ignored"
                                  ELSE "registered">>)
    /\ UNCHANGED <<settings, cache, store, workdir, run, aborted>>

\* wrapper(index_info): a registration under an id that is in the registry
\* logs a warning and returns; else the source is put in the registry and,
\* if AUTO_REINDEX_INTERVAL is truthy, in the beat schedule.
Wrapper(s, desc) ==
    /\ Len(reglog) < MaxRegistrations
    /\ IF registry[s] # "none"
       THEN /\ reglog' = Append(reglog, <<s, desc, "ignored">>)
            /\ UNCHANGED <<registry, beat_schedule>>
       ELSE /\ registry' = [registry EXCEPT ![s] = desc]
            /\ beat_schedule' =
                  IF settings.AUTO_REINDEX_INTERVAL # NoInterval
                  THEN [beat_schedule EXCEPT
                          ![s] = BeatEntry(s, settings.AUTO_REINDEX_INTERVAL)]
                  ELSE beat_schedule
            /\ reglog' = Append(reglog, <<s, desc, "registered">>)
    /\ UNCHANGED <<settings, cache, store, workdir, run, aborted>>

\* ------------------------------------------------- load of main/sources.py
\* A value that counts as true in all([...]): not None, not ''.
Truthy(v) == v \notin {None, ""}

\* all([dataset_id in DATASET_SOURCE_OVERRIDES for dataset_id in DATASETS])
have_explicit_sources_for_all_datasets ==
    \A i \in 1..Len(settings.RELATON_DATASETS) :
        settings.DATASET_SOURCE_OVERRIDES[settings.RELATON_DATASETS[i]]
            # "absent"

\* all([DEFAULT_DATASET_REPO_BRANCH, DEFAULT_DATASET_REPO_URL_TEMPLATE])
have_fallback_defaults ==
    /\ Truthy(settings.DEFAULT_DATASET_REPO_BRANCH)
    /\ Truthy(settings.DEFAULT_DATASET_REPO_URL_TEMPLATE)

\* DEFAULT_DATASET_REPO_URL_TEMPLATE.format(dataset_id=dataset_id)
Format(template, s) == template \o "/" \o s

\* The default argument of overrides.get('repo_url', ...) is evaluated
\* before the lookup, whatever the overrides hold: without a template,
\* None.format raises AttributeError.
LocateRaises(s) == settings.DEFAULT_DATASET_REPO_URL_TEMPLATE = None

\* locate_relaton_source_repo(dataset_id) when it returns.
locate_relaton_source_repo(s) ==
    LET overrides == settings.DATASET_SOURCE_OVERRIDES[s]
    IN <<s,
         IF overrides \in {"url", "url_branch"} THEN "url/" \o s
         ELSE Format(settings.DEFAULT_DATASET_REPO_URL_TEMPLATE, s),
         IF overrides = "url_branch" THEN "branch/" \o s
         ELSE settings.DEFAULT_DATASET_REPO_BRANCH>>

\* if len(DATASETS) < 1: raise ImproperlyConfigured
CheckDatasets ==
    /\ startup.pc = "datasets"
    /\ startup' = IF Len(settings.RELATON_DATASETS) < 1
                  THEN [startup EXCEPT !.pc = "failed",
                                       !.error = "ImproperlyConfigured"]
                  ELSE [startup EXCEPT !.pc = "defaults"]
    /\ UNCHANGED <<settings, beat_schedule, reglog, registry, cache, store,
                   workdir, run, aborted>>

\* if not have_explicit_sources_for_all_datasets
\*    and not have_fallback_defaults: raise ImproperlyConfigured
CheckDefaults ==
    /\ startup.pc = "defaults"
    /\ startup' = IF /\ ~have_explicit_sources_for_all_datasets
                     /\ ~have_fallback_defaults
                  THEN [startup EXCEPT !.pc = "failed",
                                       !.error = "ImproperlyConfigured"]
                  ELSE [startup EXCEPT !.pc = "register"]
    /\ UNCHANGED <<settings, beat_schedule, reglog, registry, cache, store,
                   workdir, run, aborted>>

\* One iteration of 'for source_id in settings.RELATON_DATASETS:
\* register_relaton_source(source_id)': the repository is located, then the
\* source is registered.
register_relaton_source ==
    LET datasets == settings.RELATON_DATASETS
        s == datasets[startup.next]
    IN /\ startup.pc = "register"
       /\ startup.next <= Len(datasets)
       /\ IF LocateRaises(s)
          THEN /\ startup' = [startup EXCEPT !.pc = "failed",
                                             !.error = "AttributeError"]
               /\ UNCHANGED <<settings, beat_schedule, reglog, registry,
                              cache, store, workdir, run, aborted>>
          ELSE /\ Wrapper(s, "relaton")
               /\ startup' =
                     [startup EXCEPT
                        !.next = @ + 1,
                        !.repos = Append(@, locate_relaton_source_repo(s)),
                        !.pc = IF startup.next = Len(datasets)
                               THEN "done" ELSE "register"]

\* ------------------------------------------- handle_index (the registry)
\* (history) Whether the operation rn of a caller is a run of
\* handle_index(refs=None, force=True) of source s that synchronized its
\* repositories and ended by itself, and the same call comes next.
ForcedFullTwice(rn, s, subset, force) ==
    /\ rn.op = "index" /\ rn.src = s
    /\ rn.force /\ ~rn.subset
    /\ force /\ ~subset
    /\ rn.pc \in {"done", "failed"}
    /\ rn.error \notin {"sync", "cancelled"}

\* registry[s].index(refs, on_progress, on_item_error, force) is called.
\* (history) What the operation rn of a caller was, when a run of
\* handle_index(refs=None, force=False) of source s comes next: a partial
\* run of s that found another fingerprint in the cache than its own and
\* returned, or a reset of s that followed a run that returned; with the
\* fingerprint of that run.
LastBeforeIndex(rn, s, subset, force) ==
    IF subset \/ force \/ rn.src # s \/ rn.pc # "done" THEN NoLast
    ELSE IF /\ rn.op = "index" /\ rn.subset /\ rn.returned
            /\ rn.cache0 # Join(rn.heads)
         THEN [kind |-> "partial", fp |-> Join(rn.heads)]
    ELSE IF rn.op = "reset" /\ rn.last.kind = "indexed"
         THEN [kind |-> "reset", fp |-> rn.last.fp]
    ELSE NoLast

\* (history) The same, when a reset of source s comes next: a run of
\* handle_index of s that returned, with its fingerprint.
LastBeforeReset(rn, s) ==
    IF rn.op = "index" /\ rn.src = s /\ rn.pc = "done" /\ rn.returned
    THEN [kind |-> "indexed", fp |-> Join(rn.heads)]
    ELSE NoLast

StartIndex(r, s, subset, requested, force) ==
    LET twice == ForcedFullTwice(run[r], s, subset, force)
    IN
    /\ Terminal(r)
    /\ registry[s] # "none"
    /\ run' = [run EXCEPT ![r] =
                 [IdleRun EXCEPT !.op = "index", !.pc = "sync", !.src = s,
                                 !.subset = subset, !.requested = requested,
                                 !.force = force,
                                 !.prevabort = aborted[s],
                                 !.prev = IF twice
                                          THEN [fp |-> Join(run[r].heads),
                                                pc |-> run[r].pc,
                                                result |-> run[r].result]
                                          ELSE NoPrev,
                                 !.before = IF twice THEN store ELSE EmptyStore,
                                 !.last = LastBeforeIndex(run[r], s, subset,
                                                          force),
                                 !.cache0 = cache[s]]]
    /\ UNCHANGED <<registration, registry, cache, store, workdir, aborted>>

\* Variant: repo_heads.insert(0, ...), the heads in reverse order.
PrependHead(heads, h) == <<HexSha(h)>> \o heads

\* repo_heads.append(repo.head.commit.hexsha)
AppendHead(heads, h) == Append(heads, HexSha(h))

\* One iteration of the loop over repos: on_progress, ensure_latest, head
\* appended. ensure_latest fast-forwards the work directory to commit h of
\* the remote; the data of the Relaton repository changes with its head.
SyncRepo(r, h, files) ==
    LET s == run[r].src
        name == Repos(s)[run[r].repo]
        last == run[r].repo = Len(Repos(s))
    IN /\ run[r].pc = "sync"
       /\ IF name = "r1"
          THEN /\ h >= workdir.head
               /\ IF h = workdir.head
                  THEN files = workdir.files
                  ELSE TRUE
               /\ workdir' = [workdir EXCEPT !.head = h, !.files = files]
          ELSE /\ files = EmptyData
               /\ UNCHANGED workdir
       /\ run' = [run EXCEPT
                    ![r].proglog = Append(@, <<"pull", Len(Repos(s)), run[r].repo>>),
                    ![r].heads = AppendHead(@, h),
                    ![r].synced = Append(@, <<name, h>>),
                    ![r].repo = @ + 1,
                    ![r].pc = IF last THEN "decide" ELSE "sync"]
       /\ UNCHANGED <<registration, registry, cache, store, aborted>>

\* ensure_latest raises (network, VCS): the exception leaves handle_index.
SyncFail(r) ==
    LET s == run[r].src
    IN /\ run[r].pc = "sync"
       /\ run' = [run EXCEPT
                    ![r].proglog = Append(@, <<"pull", Len(Repos(s)), run[r].repo>>),
                    ![r].pc = "failed",
                    ![r].error = "sync"]
       /\ aborted' = [aborted EXCEPT ![s] = NoAbort]
       /\ UNCHANGED <<registration, registry, cache, store, workdir>>

\* Variant: the cache is read under a key nothing is stored under.
ShouldIndexWrongKey(force, cached, heads_serialized) ==
    force \/ Absent # heads_serialized

\* Variant: the force flag is not looked at.
ShouldIndexNoForce(force, cached, heads_serialized) ==
    cached # heads_serialized

\* if force or cache.get(latest_indexed_heads_key) != heads_serialized
ShouldIndex(force, cached, heads_serialized) ==
    force \/ cached # heads_serialized

\* Variant: the cache is written before the indexer is called.
DecideIndexCacheFirst(r) ==
    LET s == run[r].src
    IN /\ run[r].pc = "decide"
       /\ ShouldIndex(run[r].force, cache[s], Join(run[r].heads))
       /\ cache' = [cache EXCEPT ![s] = Join(run[r].heads)]
       /\ run' = [run EXCEPT ![r].pc = "call"]
       /\ UNCHANGED <<registration, registry, store, workdir, aborted>>

DecideIndex(r) ==
    LET s == run[r].src
    IN /\ run[r].pc = "decide"
       /\ ShouldIndex(run[r].force, cache[s], Join(run[r].heads))
       /\ run' = [run EXCEPT ![r].pc = "call"]
       /\ UNCHANGED <<registration, registry, cache, store, workdir, aborted>>

\* else: return 0, 0
DecideSkip(r) ==
    LET s == run[r].src
    IN /\ run[r].pc = "decide"
       /\ ~ShouldIndex(run[r].force, cache[s], Join(run[r].heads))
       /\ run' = [run EXCEPT ![r].pc = "done", ![r].result = <<0, 0>>]
       /\ aborted' = [aborted EXCEPT ![s] = NoAbort]
       /\ UNCHANGED <<registration, registry, cache, store, workdir>>

\* index_info['indexer'](work_dir_paths, refs, on_index_progress,
\* on_item_error) on an indexer with another number of positional
\* parameters: TypeError, raised by the call before the body is entered.
CallArityError(r) ==
    LET s == run[r].src
    IN /\ run[r].pc = "call"
       /\ IndexerParams(registry[s]) # IndexerCallArgs
       /\ run' = [run EXCEPT ![r].pc = "failed", ![r].error = "TypeError",
                             ![r].invoked = TRUE]
       /\ aborted' = [aborted EXCEPT ![s] =
                        [fp |-> Join(run[r].heads), force |-> run[r].force]]
       /\ UNCHANGED <<registration, registry, cache, store, workdir>>

\* What the indexer of the other source does to the records of its dataset.
IndexerEffects == {"none", "upsert", "delete"}
ApplyEffect(data, eff, ref) ==
    CASE eff = "upsert" -> [data EXCEPT ![ref] = ExtRecord]
      [] eff = "delete" -> [data EXCEPT ![ref] = NoRec]
      [] OTHER -> data

\* The ref the indexer of the other source works on.
ExtRef == RefOrder[1]

\* (found, indexed) returned by the indexer of the other source.
ExtResult == <<Len(RefOrder), Len(RefOrder)>>

\* The registered indexer is entered and returns (found, indexed).
IndexerReturn(r, eff, ref) ==
    LET s == run[r].src
    IN /\ run[r].pc = "call"
       /\ IndexerParams(registry[s]) = IndexerCallArgs
       /\ store' = [store EXCEPT ![s] = ApplyEffect(@, eff, ref)]
       /\ run' = [run EXCEPT ![r].pc = "cacheset", ![r].result = ExtResult,
                             ![r].invoked = TRUE, ![r].entered = TRUE,
                             ![r].returned = TRUE]
       /\ UNCHANGED <<registration, registry, cache, workdir, aborted>>

\* Variant: the cache is written in a finally clause, so also when the
\* indexer raises.
IndexerRaiseThenCacheSet(r, eff, ref) ==
    LET s == run[r].src
    IN /\ run[r].pc = "call"
       /\ IndexerParams(registry[s]) = IndexerCallArgs
       /\ store' = [store EXCEPT ![s] = ApplyEffect(@, eff, ref)]
       /\ run' = [run EXCEPT ![r].pc = "cacheset", ![r].error = "indexer",
                             ![r].invoked = TRUE, ![r].entered = TRUE]
       /\ UNCHANGED <<registration, registry, cache, workdir, aborted>>

\* The registered indexer is entered and raises.
IndexerRaise(r, eff, ref) ==
    LET s == run[r].src
    IN /\ run[r].pc = "call"
       /\ IndexerParams(registry[s]) = IndexerCallArgs
       /\ store' = [store EXCEPT ![s] = ApplyEffect(@, eff, ref)]
       /\ run' = [run EXCEPT ![r].pc = "failed", ![r].error = "indexer",
                             ![r].invoked = TRUE, ![r].entered = TRUE]
       /\ aborted' = [aborted EXCEPT ![s] =
                        [fp |-> Join(run[r].heads), force |-> run[r].force]]
       /\ UNCHANGED <<registration, registry, cache, workdir>>

\* cache.set(latest_indexed_heads_key, heads_serialized); return found, indexed
CacheSet(r) ==
    LET s == run[r].src
    IN /\ run[r].pc = "cacheset"
       /\ cache' = [cache EXCEPT ![s] = Join(run[r].heads)]
       /\ run' = [run EXCEPT ![r].pc = "done"]
       /\ aborted' = [aborted EXCEPT ![s] = NoAbort]
       /\ UNCHANGED <<registration, registry, store, workdir>>

\* What is left of a run whose worker was killed: the call and its
\* arguments; the locals are gone.
Killed(rn) ==
    [IdleRun EXCEPT !.op = rn.op, !.pc = "failed", !.error = "cancelled",
                    !.src = rn.src, !.subset = rn.subset,
                    !.requested = rn.requested, !.force = rn.force,
                    !.version = rn.version, !.returned = rn.returned,
                    !.prevabort = rn.prevabort, !.last = rn.last,
                    !.cache0 = rn.cache0, !.before = rn.before]

\* The task runtime kills the worker in the middle of handle_index.
CancelIndex(r) ==
    LET s == run[r].src
    IN /\ run[r].op = "index"
       /\ run[r].pc \in {"sync", "decide", "call", "cacheset"}
       /\ run' = [run EXCEPT ![r] = Killed(run[r])]
       /\ aborted' = [aborted EXCEPT ![s] =
                        IF run[r].pc = "call"
                        THEN [fp |-> Join(run[r].heads),
                              force |-> run[r].force]
                        ELSE NoAbort]
       /\ UNCHANGED <<registration, registry, cache, store, workdir>>

\* Variant: the delete without the filter on the dataset.
DeleteEveryDataset(data, s) ==
    [d \in Sources |-> [ref \in Refs |-> NoRec]]

\* RefData.objects.filter(dataset=dataset_id).delete()
DeleteDataset(data, s) ==
    [data EXCEPT ![s] = [ref \in Refs |-> NoRec]]

\* ------------------------------------------------ reset_index_for_dataset
\* Variant: the reset deletes the cache entry of the source too.
ResetIndexClearsCache(r, s) ==
    /\ Terminal(r)
    /\ store' = DeleteDataset(store, s)
    /\ cache' = [cache EXCEPT ![s] = Absent]
    /\ run' = [run EXCEPT ![r] =
                 [IdleRun EXCEPT !.op = "reset", !.pc = "done", !.src = s,
                                 !.last = LastBeforeReset(run[r], s),
                                 !.deleted = Deleted(store[s], store'[s])]]
    /\ UNCHANGED <<registration, registry, workdir, aborted>>

\* with transaction.atomic(): RefData.objects.filter(dataset=ds_id).delete()
ResetIndex(r, s) ==
    /\ Terminal(r)
    /\ store' = DeleteDataset(store, s)
    /\ run' = [run EXCEPT ![r] =
                 [IdleRun EXCEPT !.op = "reset", !.pc = "done", !.src = s,
                                 !.last = LastBeforeReset(run[r], s),
                                 !.deleted = Deleted(store[s], store'[s])]]
    /\ UNCHANGED <<registration, registry, cache, workdir, aborted>>

\* The delete raises inside transaction.atomic(): the transaction is rolled
\* back and the exception leaves reset_index_for_dataset.
ResetFail(r, s) ==
    /\ Terminal(r)
    /\ run' = [run EXCEPT ![r] =
                 [IdleRun EXCEPT !.op = "reset", !.pc = "failed", !.src = s,
                                 !.error = "database"]]
    /\ UNCHANGED <<registration, registry, cache, store, workdir, aborted>>

\* ---------------------------------------------------------- index_dataset
\* ds_version values a caller of index_dataset passes.
Versions == {"v1", "v2"}

\* index_ts = datetime.datetime.now(), taken once in a call of
\* index_dataset: the value for the calls of one caller, whose runs are
\* told apart by ds_version, and the values for calls that overlap.
Now == {"t1"}
Times == {"t1", "t2"}

\* open() and yaml.load succeed on the file.
Readable(k) == k \notin {"broken", NoFile}

\* Variant: get_or_create, which leaves a record that exists as it is.
UpsertCreatesOnly(data, ref, rec) ==
    IF data[ref] # NoRec THEN data ELSE [data EXCEPT ![ref] = rec]

\* Variant: RefData.objects.create, which adds a row whatever is stored.
UpsertAddsRow(data, ref, rec) ==
    IF data[ref] = NoRec
    THEN [data EXCEPT ![ref] = rec]
    ELSE [data EXCEPT ![ref] = [rec EXCEPT !.rows = data[ref].rows + 1]]

\* RefData.objects.update_or_create(ref=ref, dataset=ds_id, defaults=...):
\* the row found for (ref, dataset) takes the defaults, and a row is created
\* if none is found.
Upsert(data, ref, rec) ==
    IF data[ref] = NoRec
    THEN [data EXCEPT ![ref] = rec]
    ELSE [data EXCEPT ![ref] = [rec EXCEPT !.rows = data[ref].rows]]

\* missing_refs = requested_refs - indexed_refs
MissingRefs(requested, indexed) == requested \ indexed

\* filter(dataset=ds_id, ref__in=missing_refs).delete()
DeleteRefs(data, refs) ==
    [ref \in Refs |-> IF ref \in refs THEN NoRec ELSE data[ref]]

\* Variant: the eviction filters on an empty list of refs.
EvictNothing(data, enumerated) == data

\* Variant: only the refs whose file validated in this run are excluded
\* from the eviction.
EvictExceptValidated(data, enumerated) ==
    [ref \in Refs |->
        IF ref \in SeqToSet(enumerated)
           /\ Readable(workdir.files[ref])
           /\ (RawValid(workdir.files[ref]) \/ SecondValid(workdir.files[ref]))
        THEN data[ref] ELSE NoRec]

\* filter(dataset=ds_id).exclude(ref__in=[ref for (ref, fpath) in
\* refs_with_paths]).delete()
EvictExcept(data, enumerated) ==
    [ref \in Refs |-> IF ref \in SeqToSet(enumerated) THEN data[ref] ELSE NoRec]

\* The writes of the transaction, applied to the committed records.
ApplyTxn(data, txn) ==
    [ref \in Refs |-> IF txn[ref] # NoRec THEN txn[ref] ELSE data[ref]]

\* Variant: index_requested is given every enumerated file.
WorkListUnfiltered(subset, enumerated, requested) == enumerated

\* The list index_requested is called with.
WorkList(subset, enumerated, requested) ==
    IF subset THEN FilterRefs(enumerated, requested) ELSE enumerated

\* Variant: no transaction in either mode.
InTransactionNever(subset) == FALSE

\* Variant: a transaction around the loop in both modes.
InTransactionAlways(subset) == TRUE

\* Whether index_requested runs inside transaction.atomic().
InTransaction(subset) == subset

\* Variant: the second number is the number of files found, not the number
\* of refs that were upserted.
ResultPairCountsFound(total, indexed_refs) == <<total, total>>

\* return total, len(indexed_refs)
ResultPair(total, indexed_refs) == <<total, Cardinality(indexed_refs)>>

\* Position reported by report_progress inside the loop, for the file at
\* position pos (1-based) of the list index_requested works on.
ReportedIndex(pos) == pos - 1

\* History: the records when index_dataset is called; in full mode those of
\* the other datasets only.
Snapshot(subset, ds) ==
    IF subset THEN store ELSE [store EXCEPT ![ds] = EmptyStore[ds]]

\* Variant: without the 'if total < 1' test.
StartIndexDatasetUnchecked(r, ds_version, index_ts, subset, requested) ==
    LET enumerated == Enumerate(workdir.files)
        total == Len(enumerated)
    IN /\ Terminal(r)
       /\ run' = [run EXCEPT ![r] =
                    [IdleRun EXCEPT
                       !.op = "index_dataset", !.src = RelatonDs,
                       !.subset = subset, !.requested = requested,
                       !.version = ds_version, !.ts = index_ts,
                       !.before = Snapshot(subset, RelatonDs),
                       !.pc = "loop",
                       !.files = enumerated,
                       !.total = total,
                       !.work = WorkList(subset, enumerated, requested),
                       !.idx = 1,
                       !.proglog = <<<<"index", total, 0>>>>]]
       /\ UNCHANGED <<registration, registry, cache, store, workdir, aborted>>

\* index_dataset(ds_id, ds_version, relaton_path, refs, ...) up to the call
\* of index_requested: the files are enumerated, 'Nothing to index' is
\* raised if there is none, the first progress report is made.
StartIndexDataset(r, ds_version, index_ts, subset, requested) ==
    LET enumerated == Enumerate(workdir.files)
        total == Len(enumerated)
        fresh == [IdleRun EXCEPT !.op = "index_dataset", !.src = RelatonDs,
                                 !.subset = subset, !.requested = requested,
                                 !.version = ds_version,
                                 !.ts = index_ts,
                                 !.before = Snapshot(subset, RelatonDs)]
    IN /\ Terminal(r)
       /\ IF total < 1
          THEN run' = [run EXCEPT ![r] =
                         [fresh EXCEPT !.pc = "failed", !.error = "nothing"]]
          ELSE run' = [run EXCEPT ![r] =
                         [fresh EXCEPT
                            !.pc = "loop",
                            !.files = enumerated,
                            !.total = total,
                            !.work = WorkList(subset, enumerated, requested),
                            !.idx = 1,
                            !.proglog = <<<<"index", total, 0>>>>]]
       /\ UNCHANGED <<registration, registry, cache, store, workdir, aborted>>

\* One iteration of the loop of index_requested.
IndexFile(r) ==
    LET ds == run[r].src
        ref == run[r].work[run[r].idx]
        k == workdir.files[ref]
        v == Validate(k)
        rec == MakeRecord(k, run[r].version, run[r].ts, workdir.dates[ref])
        progress == Append(run[r].proglog,
                           <<"index", run[r].total, ReportedIndex(run[r].idx)>>)
        reports == [i \in 1..Len(v.reported) |-> <<ref, v.reported[i]>>]
        data == IF v.bibitem /\ ~InTransaction(run[r].subset)
                THEN Upsert(store[ds], ref, rec) ELSE store[ds]
        written == [run[r].txn EXCEPT ![ref] =
                       Upsert(ApplyTxn(store[ds], run[r].txn), ref, rec)[ref]]
    IN /\ run[r].op = "index_dataset"
       /\ run[r].pc = "loop"
       /\ run[r].idx <= Len(run[r].work)
       /\ IF ~Readable(k)
          THEN \* the exception leaves index_dataset; a transaction rolls back
               /\ run' = [run EXCEPT ![r].pc = "failed", ![r].error = "io",
                                     ![r].proglog = progress,
                                     ![r].opened = @ \cup {ref},
                                     ![r].txn = IdleRun.txn]
               /\ UNCHANGED store
          ELSE /\ run' = [run EXCEPT
                            ![r].proglog = progress,
                            ![r].opened = @ \cup {ref},
                            ![r].deleted = @ \cup Deleted(store[ds], data),
                            ![r].errlog = @ \o reports,
                            ![r].idx = @ + 1,
                            ![r].indexed = IF v.bibitem THEN @ \cup {ref} ELSE @,
                            ![r].txn = IF v.bibitem /\ InTransaction(run[r].subset)
                                       THEN written ELSE @]
               /\ store' = [store EXCEPT ![ds] = data]
       /\ UNCHANGED <<registration, registry, cache, workdir, aborted>>

\* Partial mode, after the loop: the missing refs are deleted and the
\* transaction commits; return total, len(indexed_refs).
FinishPartial(r) ==
    LET ds == run[r].src
        missing == MissingRefs(run[r].requested, run[r].indexed)
        data == DeleteRefs(ApplyTxn(store[ds], run[r].txn), missing)
    IN /\ run[r].op = "index_dataset"
       /\ run[r].pc = "loop"
       /\ run[r].idx > Len(run[r].work)
       /\ run[r].subset
       /\ store' = [store EXCEPT ![ds] = data]
       /\ run' = [run EXCEPT ![r].pc = "done",
                             ![r].deleted = @ \cup Deleted(store[ds], data),
                             ![r].result = ResultPair(run[r].total,
                                                      run[r].indexed)]
       /\ UNCHANGED <<registration, registry, cache, workdir, aborted>>

\* Full mode, after the loop: the records of refs that were not enumerated
\* are deleted; return total, len(indexed_refs).
EvictStale(r) ==
    LET ds == run[r].src
        data == EvictExcept(store[ds], run[r].files)
    IN /\ run[r].op = "index_dataset"
       /\ run[r].pc = "loop"
       /\ run[r].idx > Len(run[r].work)
       /\ ~run[r].subset
       /\ store' = [store EXCEPT ![ds] = data]
       /\ run' = [run EXCEPT ![r].pc = "done",
                             ![r].deleted = @ \cup Deleted(store[ds], data),
                             ![r].result = ResultPair(run[r].total,
                                                      run[r].indexed)]
       /\ UNCHANGED <<registration, registry, cache, workdir, aborted>>

\* The worker is killed inside index_dataset; an open transaction is rolled
\* back by the database.
CancelIndexDataset(r) ==
    /\ run[r].op = "index_dataset"
    /\ run[r].pc = "loop"
    /\ run' = [run EXCEPT ![r] = Killed(run[r])]
    /\ UNCHANGED <<registration, registry, cache, store, workdir, aborted>>

\* What refs can be: None, or a list of refs.
RefsArgs == {<<FALSE, {}>>} \cup {<<TRUE, R>> : R \in SUBSET Refs}

\* handle_index of the source that follows IndexableSourceToRegister.
Next ==
    \E r \in Callers :
        \/ \E a \in RefsArgs, force \in BOOLEAN :
               StartIndex(r, OtherDs, a[1], a[2], force)
        \/ \E h \in Heads : SyncRepo(r, h, EmptyData)
        \/ SyncFail(r)
        \/ DecideIndex(r)
        \/ DecideSkip(r)
        \/ \E eff \in IndexerEffects : IndexerReturn(r, eff, ExtRef)
        \/ \E eff \in IndexerEffects : IndexerRaise(r, eff, ExtRef)
        \/ CacheSet(r)
        \/ CancelIndex(r)
        \/ ResetIndex(r, OtherDs)
        \/ ResetFail(r, OtherDs)

Spec == Init /\ [][Next]_vars

\* The Relaton dataset: handle_index of its registered source, and
\* index_dataset called on its work directory.
IndexerKinds == {"valid", "fixable", "unfixable", "broken"}
IndexerData == [Refs -> IndexerKinds \cup {NoFile}]
RegistryRefsArgs == {<<FALSE, {}>>, <<TRUE, {RefOrder[1]}>>}

InitIndexer ==
    /\ InitCommon
    /\ store = [EmptyStore EXCEPT ![OtherDs][ExtRef] = ExtRecord]

NextIndexer ==
    \E r \in Callers :
        \/ \E a \in RegistryRefsArgs, force \in BOOLEAN :
               StartIndex(r, RelatonDs, a[1], a[2], force)
        \/ \E h \in Heads, files \in IndexerData : SyncRepo(r, h, files)
        \/ SyncFail(r)
        \/ DecideIndex(r)
        \/ CallArityError(r)
        \/ CancelIndex(r)
        \/ \E v \in Versions, ts \in Now, a \in RefsArgs :
               StartIndexDataset(r, v, ts, a[1], a[2])
        \/ IndexFile(r)
        \/ FinishPartial(r)
        \/ EvictStale(r)
        \/ CancelIndexDataset(r)
        \/ \E s \in Sources : ResetIndex(r, s)
        \/ \E s \in Sources : ResetFail(r, s)

SpecIndexer == InitIndexer /\ [][NextIndexer]_vars

\* index_dataset on a work directory that holds any mix of files, among them
\* files on which normalize_relaxed raises.
ValidationData == [Refs -> Kinds \cup {NoFile}]

InitValidation ==
    /\ InitRegistered
    /\ cache = [s \in CacheKeys |-> Absent]
    /\ \E files \in ValidationData :
          workdir = [head |-> 1, files |-> files, dates |-> NoDates]
    /\ run = [r \in Callers |-> IdleRun]
    /\ aborted = [s \in Sources |-> NoAbort]
    /\ store = EmptyStore

NextValidation ==
    \E r \in Callers :
        \/ \E v \in Versions, ts \in Now, a \in RefsArgs :
               StartIndexDataset(r, v, ts, a[1], a[2])
        \/ IndexFile(r)
        \/ FinishPartial(r)
        \/ EvictStale(r)

SpecValidation == InitValidation /\ [][NextValidation]_vars

\* Registration: the wrapper is called for any id with any descriptor, and
\* the registered sources are indexed with force=True.
InitRegistration ==
    /\ registry = [s \in Sources |-> "none"]
    /\ \E i \in Intervals :
          settings = [DefaultSettings EXCEPT !.AUTO_REINDEX_INTERVAL = i]
    /\ startup = NotLoaded
    /\ beat_schedule = [s \in Sources |-> NoEntry]
    /\ reglog = <<>>
    /\ cache = [s \in CacheKeys |-> Absent]
    /\ workdir = [head |-> 0, files |-> EmptyData, dates |-> NoDates]
    /\ run = [r \in Callers |-> IdleRun]
    /\ aborted = [s \in Sources |-> NoAbort]
    /\ store = EmptyStore

NextRegistration ==
    \/ \E s \in Sources, desc \in Descriptors :
          Wrapper(s, desc) /\ UNCHANGED startup
    \/ \E r \in Callers :
          \/ \E s \in Sources : StartIndex(r, s, FALSE, {}, TRUE)
          \/ \E h \in Heads : SyncRepo(r, h, EmptyData)
          \/ DecideIndex(r)
          \/ CallArityError(r)
          \/ IndexerReturn(r, "upsert", ExtRef)
          \/ CacheSet(r)

SpecRegistration == InitRegistration /\ [][NextRegistration]_vars

\* The load of main/sources.py under the settings of a deployment: the
\* lists of dataset ids, the overrides and the fallback defaults.
DatasetLists == UNION {[1..n -> Sources] : n \in 0..Cardinality(Sources)}
Templates == {None, "", "tpl"}
Branches == {None, "main"}

InitStartup ==
    /\ registry = [s \in Sources |-> "none"]
    /\ \E i \in Intervals, datasets \in DatasetLists,
          overrides \in [Sources -> OverrideKinds],
          template \in Templates, branch \in Branches :
          settings = Settings(i, datasets, overrides, template, branch)
    /\ startup = NotLoaded
    /\ beat_schedule = [s \in Sources |-> NoEntry]
    /\ reglog = <<>>
    /\ cache = [s \in CacheKeys |-> Absent]
    /\ workdir = [head |-> 0, files |-> EmptyData, dates |-> NoDates]
    /\ run = [r \in Callers |-> IdleRun]
    /\ aborted = [s \in Sources |-> NoAbort]
    /\ store = EmptyStore

NextStartup ==
    \/ CheckDatasets
    \/ CheckDefaults
    \/ register_relaton_source

SpecStartup == InitStartup /\ [][NextStartup]_vars

\* Full runs of index_dataset on a source with one file that validates, at
\* once or after normalization, for the lists of entries under its 'date'.
DateLists == UNION {[1..n -> DateItems] : n \in 0..MaxDateItems}
DatedKinds == {"valid", "fixable"}
DatedRef == RefOrder[1]

InitDates ==
    /\ InitRegistered
    /\ cache = [s \in CacheKeys |-> Absent]
    /\ \E k \in DatedKinds, items \in DateLists :
          workdir = [head |-> 1,
                     files |-> [EmptyData EXCEPT ![DatedRef] = k],
                     dates |-> [NoDates EXCEPT ![DatedRef] = items]]
    /\ run = [r \in Callers |-> IdleRun]
    /\ aborted = [s \in Sources |-> NoAbort]
    /\ store = EmptyStore

NextDates ==
    \E r \in Callers :
        \/ \E ts \in Times : StartIndexDataset(r, "v1", ts, FALSE, {})
        \/ IndexFile(r)
        \/ EvictStale(r)

SpecDates == InitDates /\ [][NextDates]_vars

\* The registered indexer, by the steps index_requested takes for a file:
\* it is entered with the paths of the working directories and reads the
\* file of the ref as the working directory holds it.
IndexerRead(r, ref) ==
    LET s == run[r].src
    IN /\ run[r].pc = "call"
       /\ IndexerParams(registry[s]) = IndexerCallArgs
       /\ Readable(workdir.files[ref])
       /\ run' = [run EXCEPT ![r].pc = "write",
                             ![r].invoked = TRUE, ![r].entered = TRUE,
                             ![r].ref_data = workdir.files[ref]]
       /\ UNCHANGED <<registration, registry, cache, store, workdir, aborted>>

\* It upserts the record made from what it read, and returns.
IndexerWrite(r, ref) ==
    LET s == run[r].src
        rec == [ExtRecord EXCEPT !.body.kind = run[r].ref_data]
    IN /\ run[r].pc = "write"
       /\ store' = [store EXCEPT ![s] = Upsert(@, ref, rec)]
       /\ run' = [run EXCEPT ![r].pc = "cacheset", ![r].result = ExtResult,
                             ![r].returned = TRUE]
       /\ UNCHANGED <<registration, registry, cache, workdir, aborted>>

\* Two workers of the task runtime at once: runs of handle_index of the
\* conforming source, whose indexer upserts one record, and full runs of
\* index_dataset at one ds_version on a work directory that does not change.
Workers == {1, 2}
ConcurrentKinds == {"valid"}
ConcurrentData ==
    {files \in [Refs -> ConcurrentKinds \cup {NoFile}] :
        files[RefOrder[Len(RefOrder)]] = "valid"}
ConcurrentVersion == "v1"

\* A record left by a run of index_dataset on an older state of the source.
OldRecord == MakeRecord("valid", "v0", "t0", <<>>)

InitConcurrent ==
    /\ InitRegistered
    /\ cache = [s \in CacheKeys |-> Absent]
    /\ \E files \in ConcurrentData :
          workdir = [head |-> 1, files |-> files, dates |-> NoDates]
    /\ run = [r \in Workers |-> IdleRun]
    /\ aborted = [s \in Sources |-> NoAbort]
    /\ store = [EmptyStore EXCEPT ![RelatonDs] = [ref \in Refs |-> OldRecord]]

\* The operations of the other workers are calls of op, if any: the
\* workers are given runs of one source.
OthersServe(r, op) == \A w \in Workers \ {r} : run[w].op \in {"none", op}

NextConcurrent ==
    \E r \in Workers :
        \/ /\ OthersServe(r, "index")
           /\ StartIndex(r, OtherDs, FALSE, {}, FALSE)
        \/ \E h \in Heads : SyncRepo(r, h, EmptyData)
        \/ DecideIndex(r)
        \/ DecideSkip(r)
        \/ IndexerReturn(r, "upsert", ExtRef)
        \/ CacheSet(r)
        \/ /\ OthersServe(r, "index_dataset")
           /\ \E ts \in Times :
                  StartIndexDataset(r, ConcurrentVersion, ts, FALSE, {})
        \/ IndexFile(r)
        \/ EvictStale(r)

SpecConcurrent == InitConcurrent /\ [][NextConcurrent]_vars

\* Workers run handle_index(refs=None) of one source, registered with an
\* indexer that follows IndexableSourceToRegister, while the remote head of
\* its repository advances and the file of a ref changes with it. The
\* source is the one with one repository: a registration under the id made
\* before main/sources.py is loaded wins over register_relaton_source.
RaceKinds == {"valid", "fixable"}
RaceData == {[EmptyData EXCEPT ![ExtRef] = k] : k \in RaceKinds}

InitRace ==
    /\ registry = [s \in Sources |-> "conforming"]
    /\ settings = DefaultSettings
    /\ startup = Loaded
    /\ beat_schedule = [s \in Sources |-> NoEntry]
    /\ reglog = <<<<RelatonDs, "conforming", "registered">>,
                  <<OtherDs, "conforming", "registered">>,
                  <<RelatonDs, "relaton", "ignored">>>>
    /\ cache = [s \in CacheKeys |-> Absent]
    /\ workdir = [head |-> 0, files |-> EmptyData, dates |-> NoDates]
    /\ run = [r \in Workers |-> IdleRun]
    /\ aborted = [s \in Sources |-> NoAbort]
    /\ store = EmptyStore

NextRace ==
    \E r \in Workers :
        \/ StartIndex(r, RelatonDs, FALSE, {}, FALSE)
        \/ \E h \in Heads, files \in RaceData : SyncRepo(r, h, files)
        \/ DecideIndex(r)
        \/ DecideSkip(r)
        \/ IndexerRead(r, ExtRef)
        \/ IndexerWrite(r, ExtRef)
        \/ CacheSet(r)
        \/ CancelIndex(r)

SpecRace == InitRace /\ [][NextRace]_vars

\* ================================================================ claims
IndexRuns == {r \in Callers : run[r].op = "index"}
Fingerprint(r) == Join(run[r].heads)

\* C1. Change-detection short-circuit: a run of handle_index with
\* force=false that finds the cache entry of its source equal to the joined
\* fingerprint of the repositories it has just synchronized returns (0, 0)
\* without invoking the indexer; that step, like the steps before it, leaves
\* the record store and the cache as they are, whatever refs were requested.
C1_ShortCircuit ==
    [][\A r \in Callers :
         /\ (/\ run[r].op = "index"
             /\ run[r].pc = "decide"
             /\ ~run[r].force
             /\ cache[run[r].src] = Fingerprint(r)
             /\ run'[r] # run[r]
             /\ run'[r].error # "cancelled")
            => /\ run'[r].pc = "done"
               /\ run'[r].result = <<0, 0>>
               /\ ~run'[r].invoked /\ ~run'[r].entered
               /\ store' = store
               /\ cache' = cache
         /\ (/\ run[r].op = "index"
             /\ run[r].pc \in {"sync", "decide"})
            => store' = store /\ cache' = cache
      ]_vars

\* A non-forced run with a list of refs took the short-circuit over a
\* two-repository fingerprint while its dataset had a record.
C1_Witness ==
    \E r \in IndexRuns :
        /\ run[r].pc = "done"
        /\ ~run[r].force
        /\ run[r].subset /\ run[r].requested # {}
        /\ run[r].result = <<0, 0>>
        /\ ~run[r].invoked
        /\ Len(run[r].heads) = 2
        /\ cache[run[r].src] = Fingerprint(r)
        /\ \E ref \in Refs : store[run[r].src][ref] # NoRec

\* C2. Cache-update discipline: the cache entries are absent at start, and
\* an entry changes only in the step of a run of handle_index of that
\* source that comes after the registered indexer was entered and returned
\* normally in that run, which writes that run's fingerprint and ends the
\* run normally; so no step of a run that ends with an exception (from the
\* synchronization or from the indexer) or with a kill changes the entry.
C2_CacheDiscipline ==
    /\ \A s \in Sources : cache[s] = Absent
    /\ [][/\ \A s \in Sources :
               cache'[s] # cache[s]
               => \E r \in Callers :
                      /\ run[r].op = "index" /\ run[r].src = s
                      /\ run[r].pc = "cacheset"
                      /\ run[r].entered /\ run[r].returned
                      /\ run[r].error = "none"
                      /\ cache'[s] = Fingerprint(r)
                      /\ run'[r].pc = "done" /\ run'[r].error = "none"
          /\ \A r \in Callers :
               (/\ run[r].op = "index" /\ run'[r].op = "index"
                /\ run'[r].pc = "failed")
               => cache'[run[r].src] = run'[r].cache0
         ]_vars

\* A run ended with an exception of the indexer at a fingerprint other than
\* the one the cache holds from an earlier run.
C2_Witness ==
    \E r \in IndexRuns :
        /\ run[r].pc = "failed"
        /\ run[r].error = "indexer"
        /\ cache[run[r].src] # Absent
        /\ cache[run[r].src] # Fingerprint(r)
        /\ cache[run[r].src] = run[r].cache0

Skipped(r) ==
    /\ run[r].op = "index"
    /\ run[r].pc = "done"
    /\ ~run[r].invoked
    /\ run[r].result = <<0, 0>>

\* C3 as stated. Retry after failure: when the previous run of handle_index
\* for the source ended, after it had decided to index and before the indexer
\* returned, by an exception or a kill, a run with the same fingerprint does
\* not take the (0, 0) short-circuit, whatever the earlier runs were.
C3_RetryAfterAnyAbort ==
    \A r \in Callers :
        Skipped(r) => run[r].prevabort.fp # Fingerprint(r)

\* C3 as amended: the same, for a previous run that was not forced.
C3_RetryAfterUnforcedAbort ==
    \A r \in Callers :
        Skipped(r) =>
            ~(run[r].prevabort.fp = Fingerprint(r) /\ ~run[r].prevabort.force)

\* A run invoked the indexer again at the fingerprint at which the previous,
\* non-forced run was aborted, with a cache entry left by an older run.
C3_Witness ==
    \E r \in IndexRuns :
        /\ run[r].prevabort.fp = Fingerprint(r)
        /\ ~run[r].prevabort.force
        /\ ~run[r].force
        /\ run[r].invoked
        /\ run[r].cache0 # Absent

\* C4. Forced bypass: a run of handle_index with force=true that ends
\* normally has invoked the registered indexer, whatever the cache entry was
\* when it started, returns what the indexer returned, and leaves the cache
\* entry equal to its fingerprint; a forced run never takes the short-circuit.
C4_ForcedBypass ==
    \A r \in Callers :
        (run[r].op = "index" /\ run[r].force)
        => /\ ~Skipped(r)
           /\ run[r].pc \in {"cacheset", "done"}
              => run[r].invoked /\ run[r].entered /\ run[r].returned
           /\ run[r].pc = "done"
              => /\ cache[run[r].src] = Fingerprint(r)
                 /\ run[r].result = ExtResult

\* A forced run ended normally although the cache entry was equal to its
\* fingerprint when it started.
C4_Witness ==
    \E r \in IndexRuns :
        /\ run[r].force
        /\ run[r].pc = "done"
        /\ run[r].cache0 = Fingerprint(r)
        /\ run[r].invoked
        /\ cache[run[r].src] = Fingerprint(r)

\* ------------------------------------------------- claims on index_dataset
FullRuns == {r \in Callers : run[r].op = "index_dataset" /\ ~run[r].subset}
PartialRuns == {r \in Callers : run[r].op = "index_dataset" /\ run[r].subset}

\* The file validates, at once or after normalization.
Validates(k) == Readable(k) /\ (RawValid(k) \/ SecondValid(k))
\* The file fails both validations.
Unresolved(k) == Readable(k) /\ ~RawValid(k) /\ ~SecondValid(k)

\* The record of ref is the one this run writes for the file of ref.
WrittenBy(r, ref) ==
    LET rec == store[run[r].src][ref]
    IN /\ rec # NoRec
       /\ rec.dataset_version = run[r].version
       /\ rec.body.kind = workdir.files[ref]
       /\ rec.indexing_outcome.success

OtherDatasetsAsBefore(r) ==
    \A d \in Sources \ {run[r].src} : store[d] = run[r].before[d]

\* C5. Stale eviction (full mode): when index_dataset without refs has
\* returned, every record of the dataset has a ref that is the base name of
\* a source file, every file that validates has its record, written by this
\* run, and the records of the other datasets are as they were.
C5_StaleEviction ==
    \A r \in FullRuns :
        run[r].pc = "done"
        => /\ \A ref \in Refs :
                 store[run[r].src][ref] # NoRec
                 => workdir.files[ref] # NoFile /\ ref \in SeqToSet(run[r].files)
           /\ \A ref \in Refs :
                 Validates(workdir.files[ref]) => WrittenBy(r, ref)
           /\ OtherDatasetsAsBefore(r)

\* A full run returned after evicting the record of a removed file, another
\* file having its record, next to a record of another dataset.
C5_Witness ==
    \E r \in FullRuns :
        /\ run[r].pc = "done"
        /\ run[r].deleted # {}
        /\ \E ref \in Refs : WrittenBy(r, ref)
        /\ \E ref \in Refs : store[OtherDs][ref] # NoRec

\* C6. Partial-mode frame: when index_dataset with refs=R has returned,
\* every requested ref whose file validates has the record this run writes,
\* every requested ref without a file has no record, every record of a ref
\* outside R and every record of another dataset is as it was before the
\* call; and at no point has the run opened the file of a ref outside R.
C6_PartialFrame ==
    \A r \in PartialRuns :
        /\ run[r].opened \subseteq run[r].requested
        /\ run[r].pc = "done"
           => /\ \A ref \in run[r].requested :
                    /\ Validates(workdir.files[ref]) => WrittenBy(r, ref)
                    /\ workdir.files[ref] = NoFile
                       => store[run[r].src][ref] = NoRec
              /\ \A ref \in Refs \ run[r].requested :
                    store[run[r].src][ref] = run[r].before[run[r].src][ref]
              /\ OtherDatasetsAsBefore(r)

\* A partial run returned: it indexed a requested ref, deleted the record of
\* a requested ref that has no file, and left the record of a non-requested
\* ref whose file cannot be read.
C6_Witness ==
    \E r \in PartialRuns :
        /\ run[r].pc = "done"
        /\ \E ref \in run[r].requested :
              WrittenBy(r, ref) /\ run[r].before[run[r].src][ref] # store[run[r].src][ref]
        /\ \E ref \in Refs \ run[r].requested :
              /\ workdir.files[ref] = "broken"
              /\ store[run[r].src][ref] # NoRec

\* C7. Partial-mode deletion set: when index_dataset with refs=R has
\* returned, the records it deleted are exactly the records of the dataset
\* whose ref was requested and is not among the enumerated source files; the
\* record of a requested ref whose file was enumerated is not deleted.
C7_DeletionSet ==
    \A r \in PartialRuns :
        run[r].pc = "done"
        => run[r].deleted =
              {ref \in run[r].requested \ SeqToSet(run[r].files) :
                 run[r].before[run[r].src][ref] # NoRec}

\* C8. Partial-mode atomicity: while index_dataset with refs=R is in its
\* loop, and after it ended with an exception or a kill at any point, the
\* store is exactly as it was when it was called.
C8_PartialAtomicity ==
    \A r \in PartialRuns :
        run[r].pc \in {"loop", "failed"} => store = run[r].before

\* A partial run failed on a file that cannot be read after it had upserted
\* an earlier requested ref, and that upsert is not in the store.
C8_Witness ==
    \E r \in PartialRuns :
        /\ run[r].pc = "failed"
        /\ run[r].error = "io"
        /\ \E ref \in run[r].indexed :
              /\ Validates(workdir.files[ref])
              /\ ~WrittenBy(r, ref)

\* C9. Full-mode best-effort: when a file that cannot be read has aborted
\* index_dataset without refs, every file processed before it that validates
\* has the record this run wrote, the run has deleted no record, nothing is
\* returned; and a run of handle_index that ended with an exception has left
\* the cache entry of its source as it was.
C9_FullBestEffort ==
    /\ \A r \in FullRuns :
          (run[r].pc = "failed" /\ run[r].error = "io")
          => /\ \A ref \in run[r].opened :
                   Validates(workdir.files[ref])
                   => ref \in run[r].indexed /\ WrittenBy(r, ref)
             /\ run[r].deleted = {}
             /\ run[r].result = NoResult
             /\ OtherDatasetsAsBefore(r)
    /\ \A r \in IndexRuns :
          run[r].pc = "failed" => cache[run[r].src] = run[r].cache0

\* A full run was aborted by its second file after it had upserted the
\* first.
C9_Witness ==
    \E r \in FullRuns :
        /\ run[r].pc = "failed"
        /\ run[r].error = "io"
        /\ Cardinality(run[r].opened) = 2
        /\ \E ref \in run[r].indexed : WrittenBy(r, ref)

\* The file the loop of index_requested is at.
CurrentKind(r) == workdir.files[run[r].work[run[r].idx]]
AtFile(r) ==
    /\ run[r].op = "index_dataset"
    /\ run[r].pc = "loop"
    /\ run[r].idx <= Len(run[r].work)

\* C10. Unrecoverable record in full mode: the iteration on a file that
\* fails both validations does not end the run: it reports the ref through
\* the error callback, writes nothing to the store, does not add the ref to
\* the indexed refs, and goes on to the next file; and a full run that has
\* returned has opened every enumerated file and counts as indexed exactly
\* the files that validate.
C10_UnrecoverableSkipped ==
    /\ [][\A r \in Callers :
            (/\ AtFile(r) /\ ~run[r].subset
             /\ Unresolved(CurrentKind(r))
             /\ run'[r] # run[r]
             /\ run'[r].error # "cancelled")
            => /\ run'[r].pc = "loop"
               /\ run'[r].error = "none"
               /\ run'[r].idx = run[r].idx + 1
               /\ run'[r].errlog =
                     Append(run[r].errlog,
                            <<run[r].work[run[r].idx], "not resolved">>)
               /\ run'[r].indexed = run[r].indexed
               /\ store' = store
         ]_vars
    /\ [](\A r \in FullRuns :
            run[r].pc = "done"
            => /\ run[r].opened = SeqToSet(run[r].files)
               /\ run[r].result[2] =
                     Cardinality({ref \in SeqToSet(run[r].files) :
                                    Validates(workdir.files[ref])})
               /\ \A ref \in SeqToSet(run[r].files) :
                     Unresolved(workdir.files[ref]) => ref \notin run[r].indexed)

\* A full run returned (2, 1): its first file failed both validations and
\* was reported, its second file was indexed.
C10_Witness ==
    \E r \in FullRuns :
        /\ run[r].pc = "done"
        /\ run[r].result = <<2, 1>>
        /\ Unresolved(workdir.files[run[r].files[1]])
        /\ run[r].errlog = <<<<run[r].files[1], "not resolved">>>>
        /\ WrittenBy(r, run[r].files[2])

\* C11 as stated. Eviction of a previously good record: when a full run has
\* returned, no ref whose file failed both validations has a record.
C11_UnresolvedEvicted ==
    \A r \in FullRuns :
        run[r].pc = "done"
        => \A ref \in SeqToSet(run[r].files) :
               Unresolved(workdir.files[ref])
               => store[run[r].src][ref] = NoRec

\* C11 as amended: no step of a full run changes the record of a ref whose
\* file fails both validations, and such a ref is not among the refs whose
\* record the run deleted: a record stored by an earlier run stays as it was.
C11_UnresolvedKept ==
    /\ [][\A r \in Callers :
            (run[r].op = "index_dataset" /\ ~run[r].subset
             /\ run[r].pc = "loop")
            => \A ref \in SeqToSet(run[r].files) :
                   Unresolved(workdir.files[ref])
                   => store'[run[r].src][ref] = store[run[r].src][ref]
         ]_vars
    /\ [](\A r \in FullRuns :
            \A ref \in run[r].deleted : ~Unresolved(workdir.files[ref]))

\* A full run returned; the file of a ref fails both validations, and the
\* record an earlier run stored for it from a valid file is still there,
\* while the run evicted the record of another ref.
C11_Witness ==
    \E r \in FullRuns :
        /\ run[r].pc = "done"
        /\ run[r].deleted # {}
        /\ \E ref \in SeqToSet(run[r].files) :
              /\ Unresolved(workdir.files[ref])
              /\ store[run[r].src][ref] # NoRec
              /\ store[run[r].src][ref].body.kind = "valid"

\* C12. Mode-dependent failure policy: a partial run with a requested file
\* that fails both validations does not return (its transaction is aborted
\* and nothing of the run is committed), whereas a full run with such a file
\* returns and has only skipped it.
C12_ModeDependentFailure ==
    /\ \A r \in PartialRuns :
          (\E ref \in SeqToSet(run[r].work) : Unresolved(workdir.files[ref]))
          => /\ run[r].pc # "done"
             /\ store = run[r].before
    /\ \A r \in FullRuns :
          run[r].pc = "done"
          => \A ref \in SeqToSet(run[r].files) :
                 Unresolved(workdir.files[ref]) => ref \notin run[r].indexed

\* -------------------------------------------- claims on the validation
\* The records of the Relaton dataset, committed or written in an open
\* transaction.
WrittenRecords ==
    {store[RelatonDs][ref] : ref \in Refs}
    \cup UNION {{run[r].txn[ref] : ref \in Refs} : r \in Callers}

\* C13. Outcome of validation: a record made from a file that is valid on
\* the first attempt has the outcome {success: true, num_validation_errors:
\* 0, validation_errors: []}; a record made from a file that fails the first
\* validation and passes the second has success=true and the count and the
\* list of the errors of the first validation; and when a full run has
\* returned, each such file has its record.
C13_ValidationOutcome ==
    /\ \A rec \in WrittenRecords \ {NoRec} :
          LET k == rec.body.kind
              o == rec.indexing_outcome
          IN /\ RawValid(k)
                => o = [success |-> TRUE, num_validation_errors |-> 0,
                        validation_errors |-> <<>>]
             /\ (~RawValid(k) /\ SecondValid(k))
                => /\ o.success
                   /\ o.num_validation_errors = Len(ValidationErrors(k))
                   /\ o.validation_errors = ValidationErrors(k)
                   /\ o.validation_errors # <<>>
    /\ \A r \in FullRuns :
          run[r].pc = "done"
          => \A ref \in SeqToSet(run[r].files) :
                 Validates(workdir.files[ref])
                 => /\ store[RelatonDs][ref] # NoRec
                    /\ store[RelatonDs][ref].body.kind = workdir.files[ref]

\* A full run returned and left a record of a file valid at once next to a
\* record of a file that needed the normalization.
C13_Witness ==
    \E r \in FullRuns :
        /\ run[r].pc = "done"
        /\ \E ref \in Refs :
              /\ store[RelatonDs][ref] # NoRec
              /\ store[RelatonDs][ref].body.kind = "valid"
        /\ \E ref \in Refs :
              /\ store[RelatonDs][ref] # NoRec
              /\ store[RelatonDs][ref].body.kind = "fixable"
              /\ store[RelatonDs][ref].indexing_outcome.num_validation_errors = 1

\* C14. Normalization failure: a ref on whose file normalize_relaxed raised
\* is reported through the error callback and is not among the refs the run
\* upserted, whatever the second validation said.
C14_NormalizationFailureSkipped ==
    \A r \in Callers :
        run[r].op = "index_dataset"
        => \A ref \in run[r].opened :
               (Readable(workdir.files[ref])
                /\ NormalizeRaises(workdir.files[ref]))
               => /\ \E i \in 1..Len(run[r].errlog) : run[r].errlog[i][1] = ref
                  /\ ref \notin run[r].indexed
                  /\ run[r].txn[ref] = NoRec

\* C15. Indexing-outcome invariant: every record written by index_dataset
\* has num_validation_errors equal to the length of validation_errors, and
\* has success=true with a non-empty list only if its file fails the first
\* validation and passes the second.
C15_OutcomeInvariant ==
    \A rec \in WrittenRecords \ {NoRec} :
        LET k == rec.body.kind
            o == rec.indexing_outcome
        IN /\ o.num_validation_errors = Len(o.validation_errors)
           /\ (o.success /\ o.validation_errors # <<>>)
              => (~RawValid(k) /\ SecondValid(k))

\* The store holds a record with success=true and one validation error,
\* committed by a partial run.
C15_Witness ==
    \E r \in PartialRuns :
        /\ run[r].pc = "done"
        /\ \E ref \in run[r].requested :
              /\ store[RelatonDs][ref] # NoRec
              /\ store[RelatonDs][ref].indexing_outcome.success
              /\ store[RelatonDs][ref].indexing_outcome.validation_errors # <<>>
              /\ store[RelatonDs][ref].indexing_outcome.num_validation_errors = 1

\* ------------------------------------------------ claims on registration
\* Position in reglog of the first call of the wrapper for id s, 0 if none.
FirstCall(s) ==
    IF \E i \in 1..Len(reglog) : reglog[i][1] = s
    THEN CHOOSE i \in 1..Len(reglog) :
            /\ reglog[i][1] = s
            /\ \A j \in 1..(i - 1) : reglog[j][1] # s
    ELSE 0

\* C16. Registration is first-wins: the registry entry of an id is the one
\* made by the first call of the wrapper for that id, and its entry in the
\* beat schedule the one made by that call; a call for an id that is in the
\* registry raises nothing (it is logged as ignored) and leaves the registry
\* and the beat schedule as they are.
C16_FirstWins ==
    /\ [](\A s \in Sources :
            /\ registry[s] =
                  IF FirstCall(s) = 0 THEN "none" ELSE reglog[FirstCall(s)][2]
            /\ beat_schedule[s] =
                  IF FirstCall(s) # 0
                     /\ settings.AUTO_REINDEX_INTERVAL # NoInterval
                  THEN BeatEntry(s, settings.AUTO_REINDEX_INTERVAL)
                  ELSE NoEntry)
    /\ [](\A i \in 1..Len(reglog) :
            reglog[i][3] = IF i = FirstCall(reglog[i][1])
                           THEN "registered" ELSE "ignored")
    /\ [][(/\ Len(reglog') = Len(reglog) + 1
           /\ registry[reglog'[Len(reglog')][1]] # "none")
          => /\ registry' = registry
             /\ beat_schedule' = beat_schedule
             /\ reglog'[Len(reglog')][3] = "ignored"
         ]_vars

\* An id was registered with one descriptor and then again with another:
\* the registry has the first, the beat schedule has its entry, and a run
\* of the source has entered the indexer of the first descriptor.
C16_Witness ==
    \E s \in Sources :
        /\ Len(reglog) = 3
        /\ reglog[1] = <<s, "conforming", "registered">>
        /\ reglog[2] = <<s, "relaton", "ignored">>
        /\ reglog[3] = <<s, "conforming", "ignored">>
        /\ registry[s] = "conforming"
        /\ beat_schedule[s] = BeatEntry(s, settings.AUTO_REINDEX_INTERVAL)
        /\ \E r \in IndexRuns :
              run[r].src = s /\ run[r].pc = "done" /\ run[r].entered

\* ------------------------------------------------- claims on repeated runs
\* C17. Idempotence of a forced full index: when handle_index(refs=None,
\* force=True) of the Relaton source has run twice in a row at the same
\* fingerprint, both runs have returned, with the same (total, indexed)
\* pair, and the records of the source after the second run are those
\* after the first.
C17_ForcedFullIdempotent ==
    \A r \in IndexRuns :
        (/\ run[r].src = RelatonDs
         /\ run[r].prev # NoPrev
         /\ run[r].prev.fp = Fingerprint(r)
         /\ run[r].pc \in {"done", "failed"}
         /\ run[r].error \notin {"sync", "cancelled"})
        => /\ run[r].prev.pc = "done"
           /\ run[r].pc = "done"
           /\ run[r].result # NoResult
           /\ run[r].result = run[r].prev.result
           /\ store[RelatonDs] = run[r].before[RelatonDs]

\* ------------------------------------------------ claims on concurrency
\* The records a full run of index_dataset at version v and timestamp ts,
\* executed alone on the files, leaves from the records data.
FullRunAlone(data, files, v, ts) ==
    [ref \in Refs |->
        IF files[ref] = NoFile THEN NoRec
        ELSE IF Validates(files[ref])
             THEN MakeRecord(files[ref], v, ts, workdir.dates[ref])
        ELSE data[ref]]

\* Two workers have ended runs of handle_index of one source at one
\* fingerprint, both having found another value in the cache.
BothIndexed(s) ==
    /\ \A w \in Workers :
          /\ run[w].op = "index" /\ run[w].src = s /\ ~run[w].subset
          /\ run[w].pc = "done"
          /\ run[w].invoked
    /\ Join(run[1].heads) = Join(run[2].heads)

\* Two workers have returned from full runs of index_dataset.
BothReturned ==
    \A w \in Workers :
        /\ run[w].op = "index_dataset" /\ ~run[w].subset
        /\ run[w].pc = "done"

\* A run of handle_index that finds a stale cache entry performs indexing,
\* also when another run is under way.
StaleIndexes ==
    \A w \in Workers :
        (/\ run[w].op = "index"
         /\ run[w].pc = "decide"
         /\ cache[run[w].src] # Join(run[w].heads)
         /\ run'[w] # run[w])
        => run'[w].pc = "call"

\* C18 as stated. Concurrent runs on an unchanged fingerprint: a run that
\* reads a stale cache entry performs indexing; when two runs of
\* handle_index at one fingerprint have both indexed, the cache entry is
\* that fingerprint and the records are those one run leaves; and when two
\* full runs of index_dataset have both returned, the records of the
\* dataset are those a run alone leaves.
C18_ConcurrentAsAlone ==
    /\ [][StaleIndexes]_vars
    /\ [](BothIndexed(OtherDs)
          => /\ cache[OtherDs] = Join(run[1].heads)
             /\ store[OtherDs] = ApplyEffect(store[OtherDs], "upsert", ExtRef))
    /\ [](BothReturned
          => \E w \in Workers :
                store[RelatonDs] =
                   FullRunAlone(store[RelatonDs], workdir.files,
                                run[w].version, run[w].ts))

\* The record without its timestamp.
Untimed(rec) ==
    IF rec = NoRec THEN NoRec
    ELSE [rows |-> rec.rows,
          dataset_version |-> rec.dataset_version,
          indexing_outcome |-> rec.indexing_outcome,
          body |-> rec.body]

\* C18 as amended: the same, where the records of the dataset are those a
\* run alone leaves but for indexed_at, which for each record is the
\* timestamp of one of the two runs.
C18_ConcurrentAsAloneUntimed ==
    /\ [][StaleIndexes]_vars
    /\ [](BothIndexed(OtherDs)
          => /\ cache[OtherDs] = Join(run[1].heads)
             /\ store[OtherDs] = ApplyEffect(store[OtherDs], "upsert", ExtRef))
    /\ [](BothReturned
          => \A ref \in Refs :
                /\ \A w \in Workers :
                      Untimed(store[RelatonDs][ref]) =
                         Untimed(FullRunAlone(store[RelatonDs], workdir.files,
                                              run[w].version, run[w].ts)[ref])
                /\ \E w \in Workers :
                      store[RelatonDs][ref] =
                         FullRunAlone(store[RelatonDs], workdir.files,
                                      run[w].version, run[w].ts)[ref])

\* Two full runs with different timestamps have both returned: each has
\* upserted both files and the two records carry different timestamps.
C18_Witness ==
    /\ BothReturned
    /\ run[1].ts # run[2].ts
    /\ \A w \in Workers : Cardinality(run[w].indexed) = 2
    /\ \E ref1, ref2 \in Refs :
          /\ store[RelatonDs][ref1] # NoRec
          /\ store[RelatonDs][ref2] # NoRec
          /\ store[RelatonDs][ref1].indexed_at # store[RelatonDs][ref2].indexed_at

\* ------------------------------------------- claims on the result and on
\* the empty source
DatasetRuns == {r \in Callers : run[r].op = "index_dataset"}
SourceFiles == {ref \in Refs : workdir.files[ref] # NoFile}

\* C19. Return value of index_dataset: when a run has returned, in full or
\* in partial mode, the first number is the number of source files, the
\* second is the number of refs the run upserted, each of which has the
\* record of this run; the second is at most the first; and in full mode it
\* is less than the first exactly when a file fails both validations.
C19_ReturnValue ==
    \A r \in DatasetRuns :
        run[r].pc = "done"
        => /\ run[r].result[1] = Cardinality(SourceFiles)
           /\ run[r].result[2] = Cardinality(run[r].indexed)
           /\ run[r].indexed =
                 {ref \in SeqToSet(run[r].work) : Validates(workdir.files[ref])}
           /\ \A ref \in run[r].indexed :
                 /\ store[run[r].src][ref] # NoRec
                 /\ store[run[r].src][ref].dataset_version = run[r].version
                 /\ store[run[r].src][ref].body.kind = workdir.files[ref]
           /\ run[r].result[2] <= run[r].result[1]
           /\ ~run[r].subset
              => (run[r].result[2] < run[r].result[1]
                  <=> \E ref \in SourceFiles : Unresolved(workdir.files[ref]))

\* A partial run for one ref, whose file needed the normalization, returned
\* (2, 1): the file that was not requested is counted in the first number.
C19_Witness ==
    \E r \in DatasetRuns :
        /\ run[r].pc = "done"
        /\ run[r].subset
        /\ Cardinality(run[r].requested) = 1
        /\ \A ref \in run[r].requested : workdir.files[ref] = "fixable"
        /\ run[r].result = <<2, 1>>

\* C20. Empty source: a call of index_dataset on a data directory without
\* source files, with or without refs, ends at once with 'Nothing to
\* index': nothing was reported as progress, no file was opened, no record
\* was written or deleted, the store and the cache are as they were; and a
\* run of handle_index of the Relaton source over such a directory does not
\* end normally and leaves the cache entry as it was.
C20_EmptySource ==
    /\ [][\A r \in Callers :
            (/\ Terminal(r)
             /\ run'[r] # run[r]
             /\ run'[r].op = "index_dataset"
             /\ SourceFiles = {})
            => /\ run'[r].pc = "failed"
               /\ run'[r].error = "nothing"
               /\ run'[r].proglog = <<>>
               /\ run'[r].opened = {}
               /\ run'[r].indexed = {}
               /\ run'[r].deleted = {}
               /\ run'[r].result = NoResult
               /\ store' = store
               /\ cache' = cache
         ]_vars
    /\ [](\A r \in DatasetRuns :
            run[r].error = "nothing"
            => /\ run[r].pc = "failed"
               /\ SourceFiles = {}
               /\ run[r].proglog = <<>>)
    /\ [](\A r \in IndexRuns :
            (/\ run[r].src = RelatonDs
             /\ Terminal(r)
             /\ SourceFiles = {})
            => /\ run[r].pc = "failed"
               /\ cache[RelatonDs] = run[r].cache0)

\* A full run over a source that was emptied ended with 'Nothing to index'
\* and the records of the dataset are still there.
C20_Witness ==
    \E r \in FullRuns :
        /\ run[r].pc = "failed"
        /\ run[r].error = "nothing"
        /\ SourceFiles = {}
        /\ \A ref \in Refs : store[RelatonDs][ref] # NoRec

\* ------------------------------------------------ claims on the callbacks
\* C21. Progress callback sequence: the reports of a run of index_dataset
\* are (total, 0), made before any file is processed, and then one report
\* per file, made before the file is processed, with the 1-based position
\* of the file: (total, 0), (total, 1), ..., (total, n), where total is the
\* number of enumerated files and n the number of files processed.
C21_ProgressSequence ==
    \A r \in DatasetRuns :
        run[r].pc \in {"loop", "done"}
        => /\ run[r].proglog =
                 [i \in 1..Len(run[r].proglog) |->
                     <<"index", run[r].total, i - 1>>]
           /\ run[r].pc = "loop" => Len(run[r].proglog) = run[r].idx
           /\ run[r].pc = "done"
              => Len(run[r].proglog) = Len(run[r].work) + 1

\* C22. reset_index_for_dataset(id) removes every stored record of the
\* dataset id or, when it fails, none of them, and leaves the records of
\* every other dataset as they were.
C22_ResetFrame ==
    [][\A r \in Callers :
          (run'[r] # run[r] /\ run'[r].op = "reset")
          => /\ \A d \in Sources \ {run'[r].src} : store'[d] = store[d]
             /\ run'[r].pc = "done"
                => \A ref \in Refs : store'[run'[r].src][ref] = NoRec
             /\ run'[r].pc # "done"
                => store'[run'[r].src] = store[run'[r].src]]_vars

\* A reset of the Relaton dataset has removed records while the other
\* dataset holds one.
C22_Witness ==
    \E r \in Callers :
        /\ run[r].op = "reset" /\ run[r].pc = "done"
        /\ run[r].src = RelatonDs /\ run[r].deleted # {}
        /\ store[OtherDs][ExtRef] # NoRec

C24_StartupCheck ==
    LET datasets == settings.RELATON_DATASETS
        rejected == \/ Len(datasets) < 1
                    \/ /\ \E i \in 1..Len(datasets) :
                             settings.DATASET_SOURCE_OVERRIDES[datasets[i]]
                                = "absent"
                       /\ ~have_fallback_defaults
    IN /\ startup.pc = "failed"
          => startup.error = "ImproperlyConfigured" /\ rejected
       /\ rejected => startup.pc \in {"datasets", "defaults", "failed"}
       /\ startup.pc = "done"
          => \A i \in 1..Len(datasets) : registry[datasets[i]] = "relaton"

\* ------------------------------------------- claims on the synchronization
\* C25. Synchronization order: within one run of handle_index the
\* repositories are synchronized one at a time in registration order, the
\* synchronization of repository i+1 starts only after the head of
\* repository i was captured, all synchronizations precede the cache
\* comparison and any invocation of the indexer, and the fingerprint is the
\* captured heads joined in registration order: a function of the commits
\* the repositories are at.
C25_SyncOrder ==
    \A r \in IndexRuns :
        LET repos == Repos(run[r].src)
            n == Len(run[r].synced)
        IN /\ n <= Len(repos)
           /\ \A i \in 1..n : run[r].synced[i][1] = repos[i]
           /\ run[r].heads = [i \in 1..n |-> HexSha(run[r].synced[i][2])]
           /\ \A i \in 1..Len(run[r].proglog) :
                 run[r].proglog[i][1] = "pull"
                 => /\ run[r].proglog[i] = <<"pull", Len(repos), i>>
                    /\ n >= i - 1
           /\ (run[r].invoked \/ run[r].pc \in {"decide", "call", "cacheset"}
               \/ run[r].result # NoResult)
              => n = Len(repos)
           /\ (run[r].src = OtherDs /\ n = Len(repos))
              => Fingerprint(r) = HexSha(run[r].synced[1][2]) \o ", "
                                  \o HexSha(run[r].synced[2][2])

\* A run on the source with two repositories has brought them to different
\* commits and has gone on to call the indexer.
C25_Witness ==
    \E r \in IndexRuns :
        /\ run[r].invoked
        /\ Len(run[r].synced) = Len(Repos(OtherDs))
        /\ run[r].synced[1][2] # run[r].synced[2][2]
        /\ run[r].src = OtherDs

\* -------------------------------------------- claims on the registry call
\* C26. Version stamping: when a run started through the index operation
\* of the registry has invoked the indexer of the Relaton source, the
\* indexer has been entered, and every record the run upserted has
\* dataset_version equal to the fingerprint of the run and indexed_at equal
\* to the one timestamp of the run.
C26_VersionStamping ==
    \A r \in IndexRuns :
        (run[r].src = RelatonDs /\ run[r].invoked)
        => /\ run[r].entered
           /\ \A ref \in run[r].indexed :
                 /\ store[RelatonDs][ref] # NoRec
                 /\ store[RelatonDs][ref].dataset_version = Fingerprint(r)
                 /\ store[RelatonDs][ref].indexed_at = run[r].ts

\* ---------------------------------------------------- claims on the dates
\* The days the entries give: those of the values a parser parses.
ParsedDays(items) ==
    {items[i].date : i \in {j \in 1..Len(items) :
                              items[j].form \in {"strict", "relaxed"}}}

\* C27. Date extraction: the latest_date stored for a record is the latest
\* of the dates parsed from the 'value' of the date entries of its file, by
\* the strict parser or else by the relaxed one, values that are missing,
\* empty or unparsable being ignored; it is the date of the indexing
\* timestamp of the run when no entry parses or there is none.
C27_DateExtraction ==
    \A ref \in Refs :
        LET rec == store[RelatonDs][ref]
            days == ParsedDays(workdir.dates[ref])
        IN rec # NoRec
           => /\ days # {}
                 => /\ rec.latest_date \in days
                    /\ \A d \in days : d <= rec.latest_date
              /\ days = {} => rec.latest_date = DateOf(rec.indexed_at)

\* A record is stored for a file with a date that only the relaxed parser
\* parses, later than the one the strict parser parses.
C27_Witness ==
    \E ref \in Refs :
        LET items == workdir.dates[ref]
        IN /\ store[RelatonDs][ref] # NoRec
           /\ Len(items) = MaxDateItems
           /\ items[1].form = "relaxed" /\ items[2].form = "strict"
           /\ items[1].date > items[2].date
           /\ store[RelatonDs][ref].latest_date = items[1].date

\* ------------------------------------- claims on the meaning of the cache
\* C28. Cache meaning after partial runs: a partial run of handle_index
\* that found another fingerprint in the cache than the one it synchronized
\* and returned normally does not cause the non-forced full run that comes
\* next at the same fingerprint to be skipped: the refs outside the
\* requested subset are not indexed at that fingerprint.
C28_PartialRunKeepsFullIndex ==
    \A r \in IndexRuns :
        (/\ run[r].last.kind = "partial"
         /\ run[r].pc = "done"
         /\ run[r].last.fp = Fingerprint(r))
        => ~Skipped(r)

\* C29. reset_index does not touch the cache: a reset leaves the cache as
\* it is, so after a run of handle_index that returned at fingerprint F and
\* a reset that followed it, the cache entry is F, and the non-forced full
\* run that comes next and finds the heads unchanged does not invoke the
\* indexer and returns (0, 0), the store holding no record of the source.
C29_ResetKeepsCache ==
    /\ [](\A r \in IndexRuns :
             run[r].last.kind = "reset"
             => /\ run[r].cache0 = run[r].last.fp
                /\ (/\ Len(run[r].heads) = Len(Repos(run[r].src))
                    /\ Fingerprint(r) = run[r].last.fp)
                   => /\ ~run[r].invoked
                      /\ cache[run[r].src] = run[r].last.fp
                      /\ \A ref \in Refs : store[run[r].src][ref] = NoRec
                      /\ run[r].pc = "done" => run[r].result = <<0, 0>>)
    /\ [][\A r \in Callers :
             (run'[r] # run[r] /\ run'[r].op = "reset")
             => cache' = cache]_vars

\* A run that upserted a record returned, a reset followed, and the
\* non-forced run after it was skipped at the same fingerprint.
C29_Witness ==
    \E r \in IndexRuns :
        /\ run[r].last.kind = "reset"
        /\ Skipped(r)
        /\ Fingerprint(r) = run[r].last.fp
        /\ cache[run[r].src] = Fingerprint(r)
        /\ \A ref \in Refs : store[run[r].src][ref] = NoRec

\* --------------------------------------------- claims on failed records
\* C30. No failed record is stored: every record index_dataset creates or
\* updates has indexing_outcome.success = true and is made from a file that
\* validates, and the iteration on a file whose validation could not be
\* resolved writes nothing, in the store or in the open transaction.
C30_NoFailedRecord ==
    /\ [](\A rec \in WrittenRecords \ {NoRec} :
             rec.indexing_outcome.success /\ Validates(rec.body.kind))
    /\ [][\A r \in Callers :
             (AtFile(r) /\ Unresolved(CurrentKind(r)))
             => /\ store' = store
                /\ run'[r].txn = run[r].txn \/ run'[r].txn = IdleRun.txn]_vars

\* A full run has returned after it opened a file that fails both
\* validations: no record is stored for it, one is for another file.
C30_Witness ==
    \E r \in FullRuns, ref \in Refs, other \in Refs :
        /\ run[r].op = "index_dataset" /\ run[r].pc = "done"
        /\ ref \in run[r].opened
        /\ Unresolved(workdir.files[ref])
        /\ store[RelatonDs][ref] = NoRec
        /\ store[RelatonDs][other] # NoRec

\* ------------------------------------- claims on runs across a new head
\* C31. Concurrent runs across an upstream change: when the runs of
\* handle_index of the workers on one source, between whose
\* synchronizations the remote head may advance and any of which may be
\* aborted, have all ended and the cache entry of the source is the
\* fingerprint of the latest head, every stored record of the source has
\* the body of its file at that head, none a body read at an older one.
C31_NoStaleBody ==
    (/\ \A w \in Workers :
           run[w].op = "index" /\ run[w].src = RelatonDs /\ Terminal(w)
     /\ cache[RelatonDs] = HexSha(workdir.head))
    => \A ref \in Refs :
          store[RelatonDs][ref] # NoRec
          => store[RelatonDs][ref].body.kind = workdir.files[ref]

====
